---- MODULE Spec2Model ----
(***************************************************************************)
(* Request dispatch pipeline of the SkillBoss API Hub client:              *)
(* run() with its three modes (stream, file output, inline), the gateway   *)
(* calls apiHubPost / apiHubRaw / apiHubStream, the SSE line decoder and   *)
(* the classification of JSON response bodies in file-output mode.         *)
(*                                                                         *)
(* Text is a sequence of one-character strings.  A JSON value is a tagged  *)
(* tuple: <<"null">>, <<"bool", TRUE>>, <<"num", 404>>, <<"str", text>>,   *)
(* <<"arr", <<value, ..>> >>, <<"obj", << <<key, value>>, .. >> >>;        *)
(* <<"undef">> is the JavaScript undefined.                                *)
(***************************************************************************)
EXTENDS Integers, Sequences, FiniteSets, TLC

(***************************************************************************)
(* Sequence helpers                                                        *)
(***************************************************************************)
RECURSIVE Flatten(_)
Flatten(ss) == IF ss = <<>> THEN <<>> ELSE Head(ss) \o Flatten(Tail(ss))

IsPrefix(p, s) == Len(p) <= Len(s) /\ SubSeq(s, 1, Len(p)) = p

\* String.prototype.startsWith
StartsWith(s, p) == IsPrefix(p, s)

\* String.prototype.includes
Includes(s, p) ==
  \E i \in 1..(Len(s) - Len(p) + 1) : SubSeq(s, i, i + Len(p) - 1) = p

\* String.prototype.slice(n) for 0 <= n
Slice(s, n) == IF n >= Len(s) THEN <<>> ELSE SubSeq(s, n + 1, Len(s))

\* the white space String.prototype.trim removes (of the characters modelled)
WhiteSpace == {" ", "\t", "\r", "\n"}

RECURSIVE TrimStart(_)
TrimStart(s) ==
  IF s # <<>> /\ Head(s) \in WhiteSpace THEN TrimStart(Tail(s)) ELSE s

RECURSIVE TrimEnd(_)
TrimEnd(s) ==
  IF s # <<>> /\ s[Len(s)] \in WhiteSpace
  THEN TrimEnd(SubSeq(s, 1, Len(s) - 1)) ELSE s

\* String.prototype.trim
Trim(s) == TrimEnd(TrimStart(s))

\* String.prototype.split('\n'): always at least one element
RECURSIVE SplitLines(_)
SplitLines(s) ==
  IF \E i \in 1..Len(s) : s[i] = "\n"
  THEN LET i == CHOOSE j \in 1..Len(s) :
                  s[j] = "\n" /\ \A k \in 1..(j - 1) : s[k] # "\n"
       IN <<SubSeq(s, 1, i - 1)>> \o SplitLines(SubSeq(s, i + 1, Len(s)))
  ELSE <<s>>

(***************************************************************************)
(* JSON values                                                             *)
(***************************************************************************)
JUndef == <<"undef">>
JNull == <<"null">>
JBool(b) == <<"bool", b>>
JNum(n) == <<"num", n>>
JStr(s) == <<"str", s>>
JArr(a) == <<"arr", a>>
JObj(m) == <<"obj", m>>

Digits == <<"0", "1", "2", "3", "4", "5", "6", "7", "8", "9">>
DigitSet == {Digits[i] : i \in 1..10}
DigitVal(c) == (CHOOSE i \in 1..10 : Digits[i] = c) - 1

RECURSIVE NatChars(_)
NatChars(n) ==
  IF n < 10 THEN <<Digits[n + 1]>>
  ELSE NatChars(n \div 10) \o <<Digits[(n % 10) + 1]>>

\* Number to string, for the integers modelled
NumChars(n) == IF n < 0 THEN <<"-">> \o NatChars(0 - n) ELSE NatChars(n)

\* JavaScript truthiness
Truthy(x) ==
  CASE x[1] = "undef" -> FALSE
    [] x[1] = "null" -> FALSE
    [] x[1] = "bool" -> x[2]
    [] x[1] = "num" -> x[2] # 0
    [] x[1] = "str" -> x[2] # <<>>
    [] OTHER -> TRUE

\* property read x.k on a value that is neither null nor undefined; the
\* names read by the code are no built-in property of a string or an array
Prop(x, k) ==
  IF x[1] = "obj" /\ \E i \in 1..Len(x[2]) : x[2][i][1] = k
  THEN x[2][CHOOSE i \in 1..Len(x[2]) : x[2][i][1] = k][2]
  ELSE JUndef

\* optional chaining x?.k
OptProp(x, k) == IF x[1] \in {"undef", "null"} THEN JUndef ELSE Prop(x, k)

\* Array.isArray
IsArray(x) == x[1] = "arr"

\* a[0] on an array
Index0(a) == IF a[1] = "arr" /\ Len(a[2]) > 0 THEN a[2][1] ELSE JUndef

Http == <<"h", "t", "t", "p">>

\* typeof x === 'string' && x.startsWith('http')
IsHttpString(x) == x[1] = "str" /\ StartsWith(x[2], Http)

(***************************************************************************)
(* JSON.stringify(value, null, 2)                                          *)
(***************************************************************************)
RECURSIVE Spaces(_)
Spaces(n) == IF n <= 0 THEN <<>> ELSE <<" ">> \o Spaces(n - 1)

RECURSIVE QuoteChars(_)
QuoteChars(s) ==
  IF s = <<>> THEN <<>>
  ELSE (IF Head(s) \in {"\"", "\\"} THEN <<"\\", Head(s)>> ELSE <<Head(s)>>)
       \o QuoteChars(Tail(s))

Quote(s) == <<"\"">> \o QuoteChars(s) \o <<"\"">>

\* Stringify(x, ind, step): the text of x at indentation ind, for an indent
\* argument step > 0
RECURSIVE Stringify(_, _, _)
RECURSIVE StringifyItems(_, _, _, _)
RECURSIVE StringifyMembers(_, _, _, _)

StringifyItems(a, i, ind, step) ==
  IF i > Len(a) THEN <<>>
  ELSE Spaces(ind) \o Stringify(a[i], ind, step)
       \o (IF i < Len(a) THEN <<",", "\n">> ELSE <<>>)
       \o StringifyItems(a, i + 1, ind, step)

StringifyMembers(m, i, ind, step) ==
  IF i > Len(m) THEN <<>>
  ELSE Spaces(ind) \o Quote(m[i][1]) \o <<":", " ">>
       \o Stringify(m[i][2], ind, step)
       \o (IF i < Len(m) THEN <<",", "\n">> ELSE <<>>)
       \o StringifyMembers(m, i + 1, ind, step)

Stringify(x, ind, step) ==
  CASE x[1] = "null" -> <<"n", "u", "l", "l">>
    [] x[1] = "bool" -> IF x[2] THEN <<"t", "r", "u", "e">>
                       ELSE <<"f", "a", "l", "s", "e">>
    [] x[1] = "num" -> NumChars(x[2])
    [] x[1] = "str" -> Quote(x[2])
    [] x[1] = "arr" ->
         IF x[2] = <<>> THEN <<"[", "]">>
         ELSE <<"[", "\n">> \o StringifyItems(x[2], 1, ind + step, step)
              \o <<"\n">> \o Spaces(ind) \o <<"]">>
    [] x[1] = "obj" ->
         IF x[2] = <<>> THEN <<"{", "}">>
         ELSE <<"{", "\n">> \o StringifyMembers(x[2], 1, ind + step, step)
              \o <<"\n">> \o Spaces(ind) \o <<"}">>

\* JSON.stringify(data, null, 4)
JSONStringify4(x) == Stringify(x, 0, 4)

\* JSON.stringify(data, null, 2)
JSONStringify2(x) == Stringify(x, 0, 2)

(***************************************************************************)
(* JSON.parse, for the grammar modelled: null, true, false, integers,      *)
(* strings with the escapes \" and \\, arrays, objects, white space.       *)
(* A parse result is [ok, val, pos]: pos the first position not consumed.*)
(***************************************************************************)
ParseFail == [ok |-> FALSE, val |-> JUndef, pos |-> 0]

RECURSIVE SkipWs(_, _)
SkipWs(s, i) ==
  IF i <= Len(s) /\ s[i] \in WhiteSpace THEN SkipWs(s, i + 1) ELSE i

Literal(s, i, word, val) ==
  IF i + Len(word) - 1 <= Len(s) /\ SubSeq(s, i, i + Len(word) - 1) = word
  THEN [ok |-> TRUE, val |-> val, pos |-> i + Len(word)]
  ELSE ParseFail

RECURSIVE ParseDigits(_, _, _)
ParseDigits(s, i, acc) ==
  IF i <= Len(s) /\ s[i] \in DigitSet
  THEN ParseDigits(s, i + 1, acc * 10 + DigitVal(s[i]))
  ELSE [ok |-> TRUE, val |-> acc, pos |-> i]

ParseNat(s, i) ==
  IF i > Len(s) \/ s[i] \notin DigitSet THEN ParseFail
  ELSE IF s[i] = "0" THEN [ok |-> TRUE, val |-> 0, pos |-> i + 1]
  ELSE ParseDigits(s, i, 0)

ParseNumber(s, i) ==
  LET neg == s[i] = "-"
      r == ParseNat(s, IF neg THEN i + 1 ELSE i)
  IN IF ~r.ok THEN ParseFail
     ELSE [ok |-> TRUE, val |-> JNum(IF neg THEN 0 - r.val ELSE r.val), pos |-> r.pos]

RECURSIVE ParseChars(_, _, _)
ParseChars(s, i, acc) ==
  IF i > Len(s) THEN ParseFail
  ELSE IF s[i] = "\"" THEN [ok |-> TRUE, val |-> acc, pos |-> i + 1]
  ELSE IF s[i] = "\\"
       THEN IF i + 1 <= Len(s) /\ s[i + 1] \in {"\"", "\\"}
            THEN ParseChars(s, i + 2, Append(acc, s[i + 1]))
            ELSE ParseFail
  ELSE IF s[i] \in {"\n", "\r", "\t"} THEN ParseFail
  ELSE ParseChars(s, i + 1, Append(acc, s[i]))

\* s[i] is the opening quote
ParseString(s, i) == ParseChars(s, i + 1, <<>>)

RECURSIVE ParseValue(_, _)
RECURSIVE ParseItems(_, _, _)
RECURSIVE ParseMembers(_, _, _)

\* i is just after "[" or after a ","
ParseItems(s, i, acc) ==
  LET r == ParseValue(s, i)
      j == SkipWs(s, r.pos)
  IN IF ~r.ok \/ j > Len(s) THEN ParseFail
     ELSE IF s[j] = "," THEN ParseItems(s, j + 1, Append(acc, r.val))
     ELSE IF s[j] = "]"
          THEN [ok |-> TRUE, val |-> JArr(Append(acc, r.val)), pos |-> j + 1]
     ELSE ParseFail

\* i is just after "{" or after a ","
ParseMembers(s, i, acc) ==
  LET k == SkipWs(s, i)
      key == IF k <= Len(s) /\ s[k] = "\"" THEN ParseString(s, k) ELSE ParseFail
      c == SkipWs(s, key.pos)
      r == IF key.ok /\ c <= Len(s) /\ s[c] = ":"
           THEN ParseValue(s, c + 1) ELSE ParseFail
      j == SkipWs(s, r.pos)
  IN IF ~r.ok \/ j > Len(s) THEN ParseFail
     ELSE IF s[j] = "," THEN ParseMembers(s, j + 1, Append(acc, <<key.val, r.val>>))
     ELSE IF s[j] = "}"
          THEN [ok |-> TRUE, val |-> JObj(Append(acc, <<key.val, r.val>>)), pos |-> j + 1]
     ELSE ParseFail

ParseValue(s, i0) ==
  LET i == SkipWs(s, i0)
  IN IF i > Len(s) THEN ParseFail
     ELSE CASE s[i] = "n" -> Literal(s, i, <<"n", "u", "l", "l">>, JNull)
            [] s[i] = "t" -> Literal(s, i, <<"t", "r", "u", "e">>, JBool(TRUE))
            [] s[i] = "f" -> Literal(s, i, <<"f", "a", "l", "s", "e">>, JBool(FALSE))
            [] s[i] = "-" \/ s[i] \in DigitSet -> ParseNumber(s, i)
            [] s[i] = "\"" ->
                 LET r == ParseString(s, i)
                 IN IF r.ok THEN [ok |-> TRUE, val |-> JStr(r.val), pos |-> r.pos]
                    ELSE ParseFail
            [] s[i] = "[" ->
                 LET j == SkipWs(s, i + 1)
                 IN IF j <= Len(s) /\ s[j] = "]"
                    THEN [ok |-> TRUE, val |-> JArr(<<>>), pos |-> j + 1]
                    ELSE ParseItems(s, i + 1, <<>>)
            [] s[i] = "{" ->
                 LET j == SkipWs(s, i + 1)
                 IN IF j <= Len(s) /\ s[j] = "}"
                    THEN [ok |-> TRUE, val |-> JObj(<<>>), pos |-> j + 1]
                    ELSE ParseMembers(s, i + 1, <<>>)
            [] OTHER -> ParseFail

\* JSON.parse(text): [ok |-> FALSE] stands for the SyntaxError it throws
JSONParse(s) ==
  LET r == ParseValue(s, 1)
  IN IF r.ok /\ SkipWs(s, r.pos) > Len(s)
     THEN [ok |-> TRUE, val |-> r.val]
     ELSE [ok |-> FALSE, val |-> JUndef]

(***************************************************************************)
(* Property names read by run, and sample texts                            *)
(***************************************************************************)
K_code == <<"c", "o", "d", "e">>
K_message == <<"m", "e", "s", "s", "a", "g", "e">>
K_data == <<"d", "a", "t", "a">>
K_url == <<"u", "r", "l">>
K_generated_images == <<"g", "e", "n", "e", "r", "a", "t", "e", "d", "_", "i", "m", "a", "g", "e", "s">>
K_image_url == <<"i", "m", "a", "g", "e", "_", "u", "r", "l">>
K_audio_url == <<"a", "u", "d", "i", "o", "_", "u", "r", "l">>
K_video_url == <<"v", "i", "d", "e", "o", "_", "u", "r", "l">>
K_output == <<"o", "u", "t", "p", "u", "t">>
K_video == <<"v", "i", "d", "e", "o">>
K_file_id == <<"f", "i", "l", "e", "_", "i", "d">>
K_base_resp == <<"b", "a", "s", "e", "_", "r", "e", "s", "p">>
K_status_code == <<"s", "t", "a", "t", "u", "s", "_", "c", "o", "d", "e">>
K_generatedSamples == <<"g", "e", "n", "e", "r", "a", "t", "e", "d", "S", "a", "m", "p", "l", "e", "s">>
K_uri == <<"u", "r", "i">>
K_videos == <<"v", "i", "d", "e", "o", "s">>
K_text == <<"t", "e", "x", "t">>

\* the URL carried by the k-th media shape of a sample body
UrlOf(k) == Http \o <<":", "/", "/", "h", "/", Digits[k + 1]>>

(***************************************************************************)
(* JavaScript conversions used by run on fields of the body                *)
(***************************************************************************)
RECURSIVE JsString(_)
RECURSIVE JoinItems(_, _)

\* Array.prototype.join(',') as used by String(array)
JoinItems(a, i) ==
  IF i > Len(a) THEN <<>>
  ELSE (IF a[i][1] \in {"null", "undef"} THEN <<>> ELSE JsString(a[i]))
       \o (IF i < Len(a) THEN <<",">> ELSE <<>>)
       \o JoinItems(a, i + 1)

\* String(x), as done by new Error(x) and by a template literal
JsString(x) ==
  CASE x[1] = "undef" -> <<"u", "n", "d", "e", "f", "i", "n", "e", "d">>
    [] x[1] = "null" -> <<"n", "u", "l", "l">>
    [] x[1] = "bool" -> IF x[2] THEN <<"t", "r", "u", "e">>
                       ELSE <<"f", "a", "l", "s", "e">>
    [] x[1] = "num" -> NumChars(x[2])
    [] x[1] = "str" -> x[2]
    [] x[1] = "arr" -> JoinItems(x[2], 1)
    [] x[1] = "obj" -> <<"[", "o", "b", "j", "e", "c", "t", " ",
                         "O", "b", "j", "e", "c", "t", "]">>

\* x >= 400 for x a number, a boolean, null, undefined or a string of
\* decimal digits (the empty string converts to 0)
GE400(x) ==
  CASE x[1] = "num" -> x[2] >= 400
    [] x[1] = "str" ->
         /\ \A i \in 1..Len(x[2]) : x[2][i] \in DigitSet
         /\ ParseDigits(x[2], 1, 0).val >= 400
    [] OTHER -> FALSE

ApiErrorPrefix == <<"A", "P", "I", " ", "e", "r", "r", "o", "r", ":", " ">>

(***************************************************************************)
(* run, file-output mode: what is done with the parsed JSON body `data`    *)
(***************************************************************************)
\* data.code && data.code >= 400
HasErrorCode(data) ==
  Truthy(Prop(data, K_code)) /\ GE400(Prop(data, K_code))

\* data.message || `API error: ${data.code}`
ErrorMessage(data) ==
  IF Truthy(Prop(data, K_message)) THEN JsString(Prop(data, K_message))
  ELSE ApiErrorPrefix \o JsString(Prop(data, K_code))

\* data.file_id && data.base_resp?.status_code === 0
IsAsyncJob(data) ==
  /\ Truthy(Prop(data, K_file_id))
  /\ OptProp(Prop(data, K_base_resp), K_status_code) = JNum(0)

\* the conditions of the if / else-if chain, in the order of the source
ShapeFlux(data) ==
  IsArray(data) /\ Len(data[2]) > 0 /\ IsHttpString(data[2][1])

ShapeDalle(data) ==
  /\ Truthy(Prop(data, K_data))
  /\ IsArray(Prop(data, K_data))
  /\ Truthy(OptProp(Index0(Prop(data, K_data)), K_url))

ShapeGenerated(data) ==
  /\ Truthy(Prop(data, K_generated_images))
  /\ IsArray(Prop(data, K_generated_images))
  /\ Truthy(Index0(Prop(data, K_generated_images)))

ShapeImageUrl(data) ==
  Truthy(Prop(data, K_image_url)) /\ IsHttpString(Prop(data, K_image_url))

ShapeAudioUrl(data) ==
  Truthy(Prop(data, K_audio_url)) /\ IsHttpString(Prop(data, K_audio_url))

ShapeVideoUrl(data) == Truthy(Prop(data, K_video_url))

ShapeOutput(data) ==
  Truthy(Prop(data, K_output)) /\ IsHttpString(Prop(data, K_output))

ShapeVideo(data) ==
  Truthy(Prop(data, K_video)) /\ IsHttpString(Prop(data, K_video))

ShapeSamples(data) ==
  /\ Truthy(Prop(data, K_generatedSamples))
  /\ IsArray(Prop(data, K_generatedSamples))
  /\ Truthy(OptProp(OptProp(Index0(Prop(data, K_generatedSamples)), K_video), K_uri))

ShapeVideos(data) ==
  /\ Truthy(Prop(data, K_videos))
  /\ IsArray(Prop(data, K_videos))
  /\ Truthy(Index0(Prop(data, K_videos)))

Probe(kind, url, type) == [kind |-> kind, mediaUrl |-> url, mediaType |-> type]

\* the chain that sets mediaUrl and mediaType, or returns from the async-job
\* branch; mediaUrl = null and mediaType = 'file' when no branch is taken
ProbeMediaReordered(data) ==
  IF ShapeFlux(data) THEN Probe("media", data[2][1], "image")
  ELSE IF ShapeDalle(data)
    THEN Probe("media", Prop(Index0(Prop(data, K_data)), K_url), "image")
  ELSE IF ShapeGenerated(data)
    THEN Probe("media", Index0(Prop(data, K_generated_images)), "image")
  ELSE IF ShapeAudioUrl(data) THEN Probe("media", Prop(data, K_audio_url), "audio")
  ELSE IF ShapeImageUrl(data) THEN Probe("media", Prop(data, K_image_url), "image")
  ELSE IF ShapeVideoUrl(data) THEN Probe("media", Prop(data, K_video_url), "video")
  ELSE IF ShapeOutput(data) THEN Probe("media", Prop(data, K_output), "video")
  ELSE IF ShapeVideo(data) THEN Probe("media", Prop(data, K_video), "video")
  ELSE IF IsAsyncJob(data) THEN Probe("processing", JNull, "file")
  ELSE IF ShapeSamples(data)
    THEN Probe("media",
               Prop(Prop(Index0(Prop(data, K_generatedSamples)), K_video), K_uri),
               "video")
  ELSE IF ShapeVideos(data)
    THEN Probe("media", Index0(Prop(data, K_videos)), "video")
  ELSE Probe("none", JNull, "file")

ProbeMedia(data) ==
  IF ShapeFlux(data) THEN Probe("media", data[2][1], "image")
  ELSE IF ShapeDalle(data)
    THEN Probe("media", Prop(Index0(Prop(data, K_data)), K_url), "image")
  ELSE IF ShapeGenerated(data)
    THEN Probe("media", Index0(Prop(data, K_generated_images)), "image")
  ELSE IF ShapeImageUrl(data) THEN Probe("media", Prop(data, K_image_url), "image")
  ELSE IF ShapeAudioUrl(data) THEN Probe("media", Prop(data, K_audio_url), "audio")
  ELSE IF ShapeVideoUrl(data) THEN Probe("media", Prop(data, K_video_url), "video")
  ELSE IF ShapeOutput(data) THEN Probe("media", Prop(data, K_output), "video")
  ELSE IF ShapeVideo(data) THEN Probe("media", Prop(data, K_video), "video")
  ELSE IF IsAsyncJob(data) THEN Probe("processing", JNull, "file")
  ELSE IF ShapeSamples(data)
    THEN Probe("media",
               Prop(Prop(Index0(Prop(data, K_generatedSamples)), K_video), K_uri),
               "video")
  ELSE IF ShapeVideos(data)
    THEN Probe("media", Index0(Prop(data, K_videos)), "video")
  ELSE Probe("none", JNull, "file")

\* what run does with the parsed body: "typeerror" (reading a property of
\* null throws), "apierror", "processing", "media" or "none"
ClassifyNoErrorCheck(data) ==
  IF data[1] = "null" THEN Probe("typeerror", JNull, "file")
  ELSE ProbeMedia(data)

Classify(data) ==
  IF data[1] = "null" THEN Probe("typeerror", JNull, "file")
  ELSE IF HasErrorCode(data) THEN Probe("apierror", JNull, "file")
  ELSE ProbeMedia(data)

(***************************************************************************)
(* Sample JSON bodies: an object takes, from each of the groups below, at  *)
(* most one alternative, and at most MaxFeatures alternatives in all.      *)
(***************************************************************************)
MaxFeatures == 2

FeatureGroups == <<
  \* code, message
  { << <<K_code, JNum(200)>> >>,
    << <<K_code, JNum(404)>> >>,
    << <<K_code, JStr(<<"5", "0", "0">>)>> >>,
    << <<K_code, JNum(404)>>, <<K_message, JStr(<<"b", "a", "d">>)>> >>,
    << <<K_code, JNum(400)>>, <<K_message, JStr(<<>>)>> >> },
  \* data
  { << <<K_data, JArr(<< JObj(<< <<K_url, JStr(UrlOf(2))>> >>) >>)>> >>,
    << <<K_data, JArr(<< JNull >>)>> >>,
    << <<K_data, JArr(<<>>)>> >> },
  \* generated_images
  { << <<K_generated_images, JArr(<< JStr(UrlOf(3)) >>)>> >>,
    << <<K_generated_images, JArr(<<>>)>> >> },
  \* image_url
  { << <<K_image_url, JStr(UrlOf(4))>> >>,
    << <<K_image_url, JStr(<<"f", "t", "p", ":", "4">>)>> >> },
  \* audio_url
  { << <<K_audio_url, JStr(UrlOf(5))>> >> },
  \* video_url
  { << <<K_video_url, JStr(UrlOf(6))>> >>,
    << <<K_video_url, JNum(7)>> >>,
    << <<K_video_url, JStr(<<>>)>> >> },
  \* output
  { << <<K_output, JStr(UrlOf(7))>> >>,
    << <<K_output, JObj(<<>>)>> >> },
  \* video
  { << <<K_video, JStr(UrlOf(8))>> >>,
    << <<K_video, JBool(TRUE)>> >> },
  \* file_id, base_resp
  { << <<K_file_id, JStr(<<"f", "1">>)>>,
       <<K_base_resp, JObj(<< <<K_status_code, JNum(0)>> >>)>> >>,
    << <<K_file_id, JStr(<<"f", "1">>)>>,
       <<K_base_resp, JObj(<< <<K_status_code, JNum(1)>> >>)>> >>,
    << <<K_file_id, JStr(<<"f", "1">>)>> >> },
  \* generatedSamples
  { << <<K_generatedSamples,
         JArr(<< JObj(<< <<K_video, JObj(<< <<K_uri, JStr(UrlOf(9))>> >>)>> >>) >>)>> >>,
    << <<K_generatedSamples, JArr(<< JNull >>)>> >> },
  \* videos
  { << <<K_videos, JArr(<< JStr(UrlOf(0)) >>)>> >> },
  \* a field run never reads
  { << <<K_text, JStr(<<"h", "\"", "i">>)>> >> } >>

RECURSIVE MemberLists(_, _)
MemberLists(g, k) ==
  IF g > Len(FeatureGroups) THEN {<<>>}
  ELSE MemberLists(g + 1, k)
       \cup (IF k > 0
             THEN {opt \o rest : opt \in FeatureGroups[g],
                                 rest \in MemberLists(g + 1, k - 1)}
             ELSE {})

ObjectBodies(k) == {JObj(m) : m \in MemberLists(1, k)}

OtherBodies ==
  { JNull, JBool(TRUE), JNum(5), JNum(-404), JStr(UrlOf(1)), JArr(<<>>),
    JArr(<< JStr(UrlOf(1)) >>), JArr(<< JStr(UrlOf(1)), JNum(2) >>),
    JArr(<< JStr(<<"f", "t", "p">>) >>), JArr(<< JNull >>),
    JArr(<< JObj(<< <<K_url, JStr(UrlOf(2))>> >>) >>) }

AsyncMarker ==
  << <<K_file_id, JStr(<<"f", "1">>)>>,
     <<K_base_resp, JObj(<< <<K_status_code, JNum(0)>> >>)>> >>

SamplesField ==
  <<K_generatedSamples,
    JArr(<< JObj(<< <<K_video, JObj(<< <<K_uri, JStr(UrlOf(9))>> >>)>> >>) >>)>>

\* bodies that carry the async-job marker next to several other features
MixedBodies ==
  { JObj(AsyncMarker \o <<SamplesField, <<K_videos, JArr(<< JStr(UrlOf(0)) >>)>> >>),
    JObj(<< <<K_image_url, JStr(UrlOf(4))>>, <<K_audio_url, JStr(UrlOf(5))>> >>
         \o AsyncMarker),
    JObj(<< <<K_code, JNum(500)>>, <<K_video, JStr(UrlOf(8))>> >> \o AsyncMarker) }

\* the JSON bodies a gateway response carries in file-output mode
JsonBodies == ObjectBodies(MaxFeatures) \cup OtherBodies \cup MixedBodies

\* the JSON bodies a gateway response carries in inline mode
InlineBodies == ObjectBodies(1) \cup OtherBodies

(***************************************************************************)
(* Server-sent event streams.  A byte is a one-character string (ASCII)    *)
(* or one of "C3", "A9": the two bytes of the UTF-8 encoding of U+00E9,    *)
(* which decodes to the character written "E9"; "FFFD" is the replacement  *)
(* character.                                                              *)
(***************************************************************************)
DataPrefix == <<"d", "a", "t", "a", ":", " ">>
DoneMark == <<"[", "D", "O", "N", "E", "]">>

SseTexts ==
  { <<>>,
    <<"d", "a", "t", "a", ":", " ", "1", "\n", "\n", "d", "a", "t", "a", ":", " ", "{", "\"", "a", "\"", ":", " ", "2", "}", "\n", "\n", "d", "a", "t", "a", ":", " ", "[", "D", "O", "N", "E", "]", "\n", "\n">>,
    <<"d", "a", "t", "a", ":", " ", "1", "\n", "d", "a", "t", "a", ":", " ", "[", "D", "O", "N", "E", "]", "\n", "d", "a", "t", "a", ":", " ", "2", "\n">>,
    <<"d", "a", "t", "a", ":", " ", "1", "\r", "\n", " ", "d", "a", "t", "a", ":", " ", "2", "\n", ":", " ", "p", "i", "n", "g", "\n", "d", "a", "t", "a", ":", "3", "\n", "d", "a", "t", "a", ":", " ", "4", " ", "\n">>,
    <<"d", "a", "t", "a", ":", " ", "x", "\n", "d", "a", "t", "a", ":", " ", "\"">> \o <<"C3", "A9">> \o <<"\"", "\n", "d", "a", "t", "a", ":", " ", "5">>,
    <<"d", "a", "t", "a", ":", " ", "1", "\n", "d", "a", "t", "a", ":", " ", "[", "D", "O", "N", "E", "]">>,
    <<"d", "a", "t", "a", ":", " ", " ", "[", "D", "O", "N", "E", "]", "\n", "d", "a", "t", "a", ":", " ", "[", "1", ",", "\n", "d", "a", "t", "a", ":", " ", "6", "\n", "\n">> }

\* TextDecoder.decode(chunk, {stream: true}): the text decoded from the
\* bytes held over (pending) followed by chunk, and the bytes held over next
RECURSIVE Utf8Decode(_, _, _)
Utf8Decode(pending, chunk, text) ==
  IF chunk = <<>> THEN [text |-> text, pending |-> pending]
  ELSE LET b == Head(chunk)
       IN IF pending # <<>>
          THEN IF b = "A9" THEN Utf8Decode(<<>>, Tail(chunk), Append(text, "E9"))
               ELSE Utf8Decode(<<>>, chunk, Append(text, "FFFD"))
          ELSE IF b = "C3" THEN Utf8Decode(<<b>>, Tail(chunk), text)
          ELSE IF b = "A9" THEN Utf8Decode(<<>>, Tail(chunk), Append(text, "FFFD"))
          ELSE Utf8Decode(<<>>, Tail(chunk), Append(text, b))

\* the for loop without the [DONE] test
RECURSIVE RunLinesNoDone(_)
RunLinesNoDone(ls) ==
  IF ls = <<>> THEN [kind |-> "exhausted", ev |-> JUndef, rest |-> <<>>]
  ELSE LET trimmed == Trim(Head(ls))
       IN IF StartsWith(trimmed, DataPrefix) /\ JSONParse(Slice(trimmed, 6)).ok
          THEN [kind |-> "yield", ev |-> JSONParse(Slice(trimmed, 6)).val,
                rest |-> Tail(ls)]
          ELSE RunLinesNoDone(Tail(ls))

\* the for loop testing the line as it is, not trimmed
RECURSIVE RunLinesNoTrim(_)
RunLinesNoTrim(ls) ==
  IF ls = <<>> THEN [kind |-> "exhausted", ev |-> JUndef, rest |-> <<>>]
  ELSE IF StartsWith(Head(ls), DataPrefix)
       THEN LET payload == Slice(Head(ls), 6)
            IN IF payload = DoneMark
               THEN [kind |-> "return", ev |-> JUndef, rest |-> <<>>]
               ELSE IF JSONParse(payload).ok
                    THEN [kind |-> "yield", ev |-> JSONParse(payload).val,
                          rest |-> Tail(ls)]
                    ELSE RunLinesNoTrim(Tail(ls))
       ELSE RunLinesNoTrim(Tail(ls))

\* the for loop ended by a payload that is no JSON
RECURSIVE RunLinesStopsAtBadJson(_)
RunLinesStopsAtBadJson(ls) ==
  IF ls = <<>> THEN [kind |-> "exhausted", ev |-> JUndef, rest |-> <<>>]
  ELSE LET trimmed == Trim(Head(ls))
       IN IF StartsWith(trimmed, DataPrefix)
          THEN LET payload == Slice(trimmed, 6)
               IN IF payload = DoneMark \/ ~JSONParse(payload).ok
                  THEN [kind |-> "return", ev |-> JUndef, rest |-> <<>>]
                  ELSE [kind |-> "yield", ev |-> JSONParse(payload).val,
                        rest |-> Tail(ls)]
          ELSE RunLinesStopsAtBadJson(Tail(ls))

\* the for loop of apiHubStream over the complete lines, run until it
\* yields, returns at [DONE], or has no line left
RECURSIVE RunLines(_)
RunLines(ls) ==
  IF ls = <<>> THEN [kind |-> "exhausted", ev |-> JUndef, rest |-> <<>>]
  ELSE LET trimmed == Trim(Head(ls))
       IN IF StartsWith(trimmed, DataPrefix)
          THEN LET payload == Slice(trimmed, 6)
               IN IF payload = DoneMark
                  THEN [kind |-> "return", ev |-> JUndef, rest |-> <<>>]
                  ELSE IF JSONParse(payload).ok
                       THEN [kind |-> "yield", ev |-> JSONParse(payload).val,
                             rest |-> Tail(ls)]
                       ELSE RunLines(Tail(ls))
          ELSE RunLines(Tail(ls))

\* the same with the whole text kept in the buffer, complete lines included
SplitBufferKeepsLines(buf, text) ==
  LET ls == SplitLines(buf \o text)
  IN [lines |-> SubSeq(ls, 1, Len(ls) - 1), buffer |-> buf \o text]

\* the same with the incomplete last line dropped instead of kept
SplitBufferDropsPartial(buf, text) ==
  LET ls == SplitLines(buf \o text)
  IN [lines |-> SubSeq(ls, 1, Len(ls) - 1), buffer |-> <<>>]

\* buffer += text; lines = buffer.split('\n'); buffer = lines.pop()
SplitBuffer(buf, text) ==
  LET ls == SplitLines(buf \o text)
  IN [lines |-> SubSeq(ls, 1, Len(ls) - 1), buffer |-> ls[Len(ls)]]

(***************************************************************************)
(* Configuration, parameters of run, responses                             *)
(***************************************************************************)
Placeholder == "YOUR_API_KEY_HERE"

\* config.apiKey; "undefined" stands for a config.json without the key
KeyValues == {"undefined", "", Placeholder, "sk-live", "sk-test"}

\* the negation of  !API_HUB_API_KEY || API_HUB_API_KEY === 'YOUR_API_KEY_HERE'
KeyConfiguredPlaceholderOnly(key) == key # Placeholder

KeyConfigured(key) == ~(key \in {"undefined", ""} \/ key = Placeholder)

\* params.stream, params.output, params.autoFallback; "undefined" = omitted
RunParams ==
  [command : {"run"}, model : {"vendor/model", "other/model"},
   inputs : {JObj(<<>>), JObj(<< <<K_text, JStr(<<"h", "i">>)>> >>)},
   stream : {"undefined", "false", "true"},
   output : {"undefined", "", "out.bin"},
   autoFallback : {"undefined", "false", "true"}]

\* command "get" is a direct call apiHubGet('/v1/models')
GetParams ==
  [command : {"get"}, model : {""}, inputs : {JUndef}, stream : {"undefined"},
   output : {"undefined"}, autoFallback : {"undefined"}]

ParamSets == RunParams \cup GetParams

\* the streaming branch taken only when no output path is given
StreamOnWithoutOutput(p) == p.stream = "true" /\ p.output \in {"undefined", ""}

\* params.stream is truthy
StreamOn(p) == p.stream = "true"
OutputOn(p) == p.output \notin {"undefined", ""}

\* the branch of run taken
Mode(p) ==
  IF p.command = "get" THEN "get"
  ELSE IF StreamOn(p) THEN "stream" ELSE IF OutputOn(p) THEN "file" ELSE "inline"

\* auto_fallback taken as given, false when omitted
EnvelopeFallbackTruthy(p) ==
  [model |-> p.model, inputs |-> p.inputs, stream |-> p.stream = "true",
   auto_fallback |-> p.autoFallback = "true"]

\* the request object built by run
Envelope(p) ==
  [model |-> p.model, inputs |-> p.inputs, stream |-> StreamOn(p),
   auto_fallback |-> p.autoFallback # "false"]

CtJson == <<"a", "p", "p", "l", "i", "c", "a", "t", "i", "o", "n", "/", "j", "s", "o", "n">>
CtAudio == <<"a", "u", "d", "i", "o", "/", "m", "p", "e", "g">>
CtOctet == <<"a", "p", "p", "l", "i", "c", "a", "t", "i", "o", "n", "/", "o", "c", "t", "e", "t", "-", "s", "t", "r", "e", "a", "m">>
CtSse == <<"t", "e", "x", "t", "/", "e", "v", "e", "n", "t", "-", "s", "t", "r", "e", "a", "m">>
AudioWord == <<"a", "u", "d", "i", "o">>
OctetWord == <<"o", "c", "t", "e", "t", "-", "s", "t", "r", "e", "a", "m">>

\* the test for 'audio' alone
IsBinaryTypeAudioOnly(ct) == Includes(ct, AudioWord)

\* contentType.includes('audio') || contentType.includes('octet-stream')
IsBinaryType(ct) == Includes(ct, AudioWord) \/ Includes(ct, OctetWord)

\* a body of binary data, delivered in two parts
BinaryBody == <<"B1", "B2">>

\* what response.json() would give for a body sent with a binary content
\* type: nothing (the bytes are no JSON text), or a JSON value
BinaryAsJson ==
  { JUndef,
    JObj(<< <<K_code, JNum(404)>>, <<K_image_url, JStr(UrlOf(4))>> >>),
    JObj(<< <<K_file_id, JStr(<<"f", "1">>)>>,
            <<K_base_resp, JObj(<< <<K_status_code, JNum(0)>> >>)>>,
            <<K_audio_url, JStr(UrlOf(5))>> >>) }

NoResponse ==
  [ok |-> FALSE, status |-> 0, ctype |-> <<>>, json |-> JUndef,
   bytes |-> <<>>, sse |-> <<>>]

Resp(ok, status, ct, json, bytes, sse) ==
  [ok |-> ok, status |-> status, ctype |-> ct, json |-> json,
   bytes |-> bytes, sse |-> sse]

\* a response with a status outside 2xx; its body is one that the mode of
\* the call could interpret (a JSON object with a media URL, an event frame)
ErrorResponse(p, st) ==
  IF Mode(p) = "stream"
  THEN Resp(FALSE, st, CtSse, JUndef, <<>>, <<"d", "a", "t", "a", ":", " ", "1", "\n">>)
  ELSE Resp(FALSE, st, CtJson, JObj(<< <<K_image_url, JStr(UrlOf(4))>> >>), <<>>, <<>>)

\* one parameter record of each mode gets the full sets of responses, the
\* other parameter records a small one
Canonical(p) ==
  /\ p.model = "vendor/model"
  /\ p.inputs = JObj(<<>>)
  /\ p.autoFallback = "undefined"
  /\ p.stream \in {"undefined", "true"}
  /\ p.output \in {"undefined", "out.bin"}
  /\ ~(p.stream = "true" /\ p.output = "out.bin")

BriefBodies ==
  { JObj(<<>>), JNull,
    JObj(<< <<K_code, JNum(404)>>, <<K_image_url, JStr(UrlOf(4))>> >>),
    JObj(<< <<K_image_url, JStr(UrlOf(4))>> >>),
    JObj(<< <<K_file_id, JStr(<<"f", "1">>)>>,
            <<K_base_resp, JObj(<< <<K_status_code, JNum(0)>> >>)>> >>) }

BriefSse == { <<"d", "a", "t", "a", ":", " ", "1", "\n">> }

\* the full sets of responses are tried with one key, on a first attempt
FullSample(p, key, n) == Canonical(p) /\ key = "sk-live" /\ n = 1

\* the responses fetchWithRetry can resolve with, for the parameters p of
\* the call, the key and the number n of the attempt; <<>> as content type
\* is a response without the header
GatewayResponses(p, key, n) ==
  {ErrorResponse(p, st) : st \in {401, 404}}
  \cup
  (IF Mode(p) \in {"file", "inline"}
   THEN {Resp(TRUE, 200, CtJson, JUndef, <<>>, <<>>)} ELSE {})
  \cup
  (CASE Mode(p) = "stream" ->
          {Resp(TRUE, 200, CtSse, JUndef, <<>>, t) :
             t \in IF FullSample(p, key, n) THEN SseTexts ELSE BriefSse}
     [] Mode(p) = "file" ->
          {Resp(TRUE, 200, CtJson, b, <<>>, <<>>) :
             b \in IF FullSample(p, key, n) THEN JsonBodies ELSE BriefBodies}
          \cup {Resp(TRUE, 200, <<>>, b, <<>>, <<>>) : b \in BriefBodies}
          \cup {Resp(TRUE, 200, ct, b, BinaryBody, <<>>) :
                   ct \in {CtAudio, CtOctet}, b \in BinaryAsJson}
     [] Mode(p) = "inline" ->
          {Resp(TRUE, 200, CtJson, b, <<>>, <<>>) :
             b \in IF FullSample(p, key, n) THEN InlineBodies ELSE BriefBodies}
     [] Mode(p) = "get" ->
          {Resp(TRUE, 200, CtJson, b, <<>>, <<>>) : b \in BriefBodies})

\* the responses fetch(mediaUrl) can resolve with
MediaResponses ==
  { [ok |-> TRUE, status |-> 200, bytes |-> <<"M1", "M2">>],
    [ok |-> FALSE, status |-> 403, bytes |-> <<>>],
    [ok |-> FALSE, status |-> 500, bytes |-> <<"M1">>] }

\* mediaResponse before fetch(mediaUrl) has resolved
NoMedia == [ok |-> FALSE, status |-> 0, bytes |-> <<>>]

NoError == [kind |-> "none", message |-> <<>>, status |-> 0,
            url |-> JUndef, mtype |-> "", attempts |-> 0]

Err(kind, message, status, url, mtype) ==
  [kind |-> kind, message |-> message, status |-> status,
   url |-> url, mtype |-> mtype, attempts |-> 0]

\* 'API key not configured. Please update config.json with your API key.'
ConfigError == Err("config", <<>>, 0, JUndef, "")

\* response.text(): the body as text
ResponseText(r) ==
  IF r.sse # <<>> THEN Utf8Decode(<<>>, r.sse, <<>>).text
  ELSE IF r.json # JUndef THEN JSONStringify2(r.json) ELSE <<>>

\* `API Hub request failed: ${response.status} ${errorText}`
HttpError(status, errorText) == Err("http", errorText, status, JUndef, "")

\* the value run returned or the error it threw; in streaming mode err is
\* the error thrown to the consumer of the generator
NoResult ==
  [kind |-> "none", saved |-> "", url |-> JUndef, type |-> "undefined",
   file_id |-> JUndef, value |-> JUndef, err |-> NoError]

Result(kind, saved, url, type, fid, value, err) ==
  [kind |-> kind, saved |-> saved, url |-> url, type |-> type,
   file_id |-> fid, value |-> value, err |-> err]

Thrown(err) == Result("error", "", JUndef, "undefined", JUndef, JUndef, err)

\* content of the output path before the call
OldContent == <<"o", "l", "d">>

\* a write of part c at offset p of the file f, through a descriptor of its
\* own: bytes there are replaced, a gap before p reads as zero bytes
WriteAt(f, p, c) ==
  [i \in 1..(IF p + 1 > Len(f) THEN p + 1 ELSE Len(f)) |->
     IF i = p + 1 THEN c ELSE IF i <= Len(f) THEN f[i] ELSE "00"]

\* the body the second call saves, in two parts
OtherBody == <<"R1", "R2">>

\* the second call before it opens the output path
NoOther == [pc |-> "idle", pipe |-> <<>>, pos |-> 0]

(***************************************************************************)
(* State                                                                   *)
(***************************************************************************)
VARIABLES
  apiKey,      \* API_HUB_API_KEY
  params,      \* the argument of run
  pc,          \* where the call is: "idle", "genStart", "awaitGateway",
               \* "awaitJson", "awaitMedia", "piping", "awaitRead",
               \* "yielded", "done", "failed"
  requests,    \* the calls of fetchWithRetry and fetch so far, in order
  attempts,    \* attempts fetchWithRetry has made for the gateway request
  response,    \* the gateway response
  data,        \* the parsed JSON body
  mediaUrl,    \* local of run
  mediaType,   \* local of run
  mediaResponse, \* local of run
  pipe,        \* parts of a binary body not yet written to the file
  file,        \* content of the output path
  opens,       \* number of times the output path was opened for writing
  pos,         \* offset at which the call's write stream writes next
  other,       \* the write stream of a second call of run on the same path
  console,     \* lines printed with console.log
  result,      \* what run returned or threw
  remaining,   \* bytes of the SSE body not yet read
  consumed,    \* bytes of the SSE body read so far
  decPending,  \* bytes held by the TextDecoder
  buffer,      \* local of apiHubStream
  lines,       \* lines of the current chunk the for loop has not reached
  events,      \* the events yielded so far
  reads,       \* number of reader.read() calls that have resolved
  doneBy       \* how the generator finished: "", "DONE", "eof"

vars == <<apiKey, params, pc, requests, attempts, response, data, mediaUrl,
          mediaType, mediaResponse, pipe, file, opens, pos, other, console, result, remaining, consumed,
          decPending, buffer, lines, events, reads, doneBy>>

fileVars == <<pipe, file, opens, pos, other>>
streamVars == <<remaining, consumed, decPending, buffer, lines, events, reads, doneBy>>
runLocals == <<data, mediaUrl, mediaType, mediaResponse>>

Init ==
  /\ apiKey \in KeyValues
  /\ params \in ParamSets
  /\ pc = "idle"
  /\ requests = <<>>
  /\ attempts = 0
  /\ response = NoResponse
  /\ data = JUndef
  /\ mediaUrl = JNull
  /\ mediaType = "file"
  /\ mediaResponse = NoMedia
  /\ pipe = <<>>
  /\ file = OldContent
  /\ opens = 0
  /\ pos = 0
  /\ other = NoOther
  /\ console = <<>>
  /\ result = NoResult
  /\ remaining = <<>>
  /\ consumed = <<>>
  /\ decPending = <<>>
  /\ buffer = <<>>
  /\ lines = <<>>
  /\ events = <<>>
  /\ reads = 0
  /\ doneBy = ""

(***************************************************************************)
(* Resilient transport (lib/fetch-retry), modelled from the specification  *)
(***************************************************************************)
\* maxAttempts of the retry configuration
MaxAttempts == 3

\* statuses retried: 429 and 5xx; 0 stands for a network-level failure
TransientFailures == {0, 429, 503}

\* an attempt is made while the attempt count is at most maxAttempts
CanRetryInclusive(n) == n <= MaxAttempts

\* a failed attempt n is followed by another one
CanRetry(n) == n < MaxAttempts

\* the last underlying error, annotated with the attempt count
TransportError(st, n) ==
  [kind |-> "transport", message |-> <<>>, status |-> st,
   url |-> JUndef, mtype |-> "", attempts |-> n]

(***************************************************************************)
(* Gateway calls                                                           *)
(***************************************************************************)
\* the request of apiHubPost, apiHubRaw and apiHubStream: headers
\* Content-Type and Authorization: Bearer <key>, body JSON.stringify(data)
PostRequest(endpoint, body) ==
  [kind |-> "gateway", method |-> "POST", endpoint |-> endpoint,
   auth |-> apiKey, body |-> body]

\* the request of apiHubGet: header Authorization only, no body
GetRequest(endpoint) ==
  [kind |-> "gateway", method |-> "GET", endpoint |-> endpoint, auth |-> apiKey]

\* the same call made twice
CallGatewayTwice(req) ==
  IF ~KeyConfigured(apiKey)
  THEN /\ pc' = "failed"
       /\ result' = Thrown(ConfigError)
       /\ UNCHANGED <<requests, attempts>>
  ELSE /\ pc' = "awaitGateway"
       /\ requests' = requests \o <<req, req>>
       /\ attempts' = 1
       /\ UNCHANGED result

\* the head of apiHubPost, apiHubRaw and apiHubGet: the key check, then
\* fetchWithRetry(`${API_HUB_BASE_URL}${endpoint}`, ...), which makes its
\* first attempt
CallGateway(req) ==
  IF ~KeyConfigured(apiKey)
  THEN /\ pc' = "failed"
       /\ result' = Thrown(ConfigError)
       /\ UNCHANGED <<requests, attempts>>
  ELSE /\ pc' = "awaitGateway"
       /\ requests' = Append(requests, req)
       /\ attempts' = 1
       /\ UNCHANGED result

\* run entering the gateway call at once in every mode
RunCallEager ==
  /\ pc = "idle"
  /\ params.command = "run"
  /\ CallGateway(PostRequest("/run", Envelope(params)))
  /\ UNCHANGED <<apiKey, params, response, console>>
  /\ UNCHANGED <<runLocals, fileVars, streamVars>>

\* run(params) up to its first await: returns the generator in streaming
\* mode, else enters apiHubRaw or apiHubPost
RunCall ==
  /\ pc = "idle"
  /\ params.command = "run"
  /\ IF StreamOn(params)
     THEN /\ pc' = "genStart"
          /\ result' = Result("stream", "", JUndef, "undefined", JUndef, JUndef, NoError)
          /\ UNCHANGED <<requests, attempts>>
     ELSE CallGateway(PostRequest("/run", Envelope(params)))
  /\ UNCHANGED <<apiKey, params, response, console>>
  /\ UNCHANGED <<runLocals, fileVars, streamVars>>

\* apiHubGet('/v1/models') up to its first await
GetCall ==
  /\ pc = "idle"
  /\ params.command = "get"
  /\ CallGateway(GetRequest("/v1/models"))
  /\ UNCHANGED <<apiKey, params, response, console>>
  /\ UNCHANGED <<runLocals, fileVars, streamVars>>

\* the consumer's first next(): apiHubStream runs up to fetchWithRetry
GenFirstPull ==
  /\ pc = "genStart"
  /\ IF ~KeyConfigured(apiKey)
     THEN /\ pc' = "failed"
          /\ result' = [result EXCEPT !.err = ConfigError]
          /\ UNCHANGED <<requests, attempts>>
     ELSE /\ pc' = "awaitGateway"
          /\ requests' = Append(requests, PostRequest("/run", Envelope(params)))
          /\ attempts' = 1
          /\ UNCHANGED result
  /\ UNCHANGED <<apiKey, params, response, console>>
  /\ UNCHANGED <<runLocals, fileVars, streamVars>>

\* an error thrown inside the call: run rejects, or the generator throws
Fail(err) ==
  /\ pc' = "failed"
  /\ result' = IF StreamOn(params) THEN [result EXCEPT !.err = err] ELSE Thrown(err)

\* an attempt of fetchWithRetry fails transiently (network failure, status
\* 429 or 5xx) and attempts are left: after the backoff delay the next
\* attempt is made
RetryAttempt ==
  /\ pc = "awaitGateway"
  /\ CanRetry(attempts)
  /\ attempts' = attempts + 1
  /\ UNCHANGED <<apiKey, params, pc, requests, response, console, result>>
  /\ UNCHANGED <<runLocals, fileVars, streamVars>>

\* the last attempt of fetchWithRetry fails with status st (0: a network
\* failure): it rejects with the transport error
GatewayRejects(st) ==
  /\ pc = "awaitGateway"
  /\ ~CanRetry(attempts)
  /\ Fail(TransportError(st, attempts))
  /\ UNCHANGED <<apiKey, params, requests, attempts, response, console>>
  /\ UNCHANGED <<runLocals, fileVars, streamVars>>

\* fs.createWriteStream(outputPath) and the start of pipeline(body, fileStream)
StartSave(bytes) ==
  /\ opens' = opens + 1
  /\ file' = <<>>
  /\ pos' = 0
  /\ pipe' = bytes
  /\ UNCHANGED other

\* the response handed on to the mode whatever its status
GatewayRespondsUnchecked(r) ==
  /\ pc = "awaitGateway"
  /\ response' = r
  /\ CASE Mode(params) = "stream" ->
            /\ pc' = "awaitRead"
            /\ remaining' = r.sse
            /\ UNCHANGED <<consumed, decPending, buffer, lines, events, reads, doneBy>>
            /\ UNCHANGED <<result, fileVars>>
       [] Mode(params) = "file" ->
            /\ IF IsBinaryType(r.ctype)
               THEN pc' = "piping" /\ StartSave(r.bytes)
               ELSE pc' = "awaitJson" /\ UNCHANGED fileVars
            /\ UNCHANGED <<result, streamVars>>
       [] Mode(params) \in {"inline", "get"} ->
            /\ pc' = "awaitJson"
            /\ UNCHANGED <<result, fileVars, streamVars>>
  /\ UNCHANGED <<apiKey, params, requests, attempts, console, runLocals>>

\* fetchWithRetry resolves with r: the !response.ok check of the gateway
\* call, then what the mode does with the response up to its next await
GatewayResponds(r) ==
  /\ pc = "awaitGateway"
  /\ response' = r
  /\ IF ~r.ok
     THEN /\ Fail(HttpError(r.status, ResponseText(r)))
          /\ UNCHANGED <<fileVars, streamVars>>
     ELSE CASE Mode(params) = "stream" ->
                 /\ pc' = "awaitRead"
                 /\ remaining' = r.sse
                 /\ UNCHANGED <<consumed, decPending, buffer, lines, events, reads, doneBy>>
                 /\ UNCHANGED <<result, fileVars>>
            [] Mode(params) = "file" ->
                 /\ IF IsBinaryType(r.ctype)
                    THEN pc' = "piping" /\ StartSave(r.bytes)
                    ELSE pc' = "awaitJson" /\ UNCHANGED fileVars
                 /\ UNCHANGED <<result, streamVars>>
            [] Mode(params) \in {"inline", "get"} ->
                 /\ pc' = "awaitJson"
                 /\ UNCHANGED <<result, fileVars, streamVars>>
  /\ UNCHANGED <<apiKey, params, requests, attempts, console, runLocals>>

(***************************************************************************)
(* run, file-output and inline mode                                        *)
(***************************************************************************)
\* the download failure reported as a failed gateway request
DownloadErrorAsHttp(type, url, status) == HttpError(status, <<>>)

\* `Failed to download ${mediaType} from ${mediaUrl}: ${mediaResponse.status}`
DownloadError(type, url, status) == Err("download", <<>>, status, url, type)

\* the same with the gateway's Authorization header
MediaRequestWithKey(url) ==
  [kind |-> "media", method |-> "GET", url |-> url, auth |-> apiKey]

\* fetch(mediaUrl): a GET with no options, so no header and no body
MediaRequest(url) ==
  [kind |-> "media", method |-> "GET", url |-> url, auth |-> "none"]

\* response.json() settles: it rejects when the body is no JSON text.
\* Inline mode: apiHubPost (apiHubGet) returns the body.
\* File-output mode: run from the error check to its next await or its end.
JsonRead ==
  /\ pc = "awaitJson"
  /\ data' = response.json
  /\ IF response.json = JUndef
     THEN /\ Fail(Err("syntax", <<>>, 0, JUndef, ""))
          /\ UNCHANGED <<requests, mediaUrl, mediaType, fileVars, console>>
     ELSE IF Mode(params) \in {"inline", "get"}
     THEN /\ pc' = "done"
          /\ result' = Result("json", "", JUndef, "undefined", JUndef, response.json, NoError)
          /\ UNCHANGED <<requests, mediaUrl, mediaType, fileVars, console>>
     ELSE LET c == Classify(response.json)
          IN CASE c.kind = "typeerror" ->
                    /\ Fail(Err("type", <<>>, 0, JUndef, ""))
                    /\ UNCHANGED <<requests, mediaUrl, mediaType, fileVars, console>>
               [] c.kind = "apierror" ->
                    /\ Fail(Err("api", ErrorMessage(response.json), 0, JUndef, ""))
                    /\ UNCHANGED <<requests, mediaUrl, mediaType, fileVars, console>>
               [] c.kind = "processing" ->
                    /\ console' = Append(console,
                           <<"Video generation started. File ID:",
                             Prop(response.json, K_file_id)>>)
                    /\ file' = JSONStringify2(response.json)
                    /\ opens' = opens + 1
                    /\ pc' = "done"
                    /\ result' = Result("processing", params.output, JUndef, "undefined",
                                        Prop(response.json, K_file_id), JUndef, NoError)
                    /\ UNCHANGED <<requests, mediaUrl, mediaType, pipe, pos, other>>
               [] c.kind = "media" ->
                    /\ mediaUrl' = c.mediaUrl
                    /\ mediaType' = c.mediaType
                    /\ requests' = Append(requests, MediaRequest(c.mediaUrl))
                    /\ pc' = "awaitMedia"
                    /\ UNCHANGED <<result, fileVars, console>>
               [] c.kind = "none" ->
                    /\ file' = JSONStringify2(response.json)
                    /\ opens' = opens + 1
                    /\ pc' = "done"
                    /\ result' = Result("json", "", JUndef, "undefined", JUndef,
                                        response.json, NoError)
                    /\ UNCHANGED <<requests, mediaUrl, mediaType, pipe, pos, other, console>>
  /\ UNCHANGED <<apiKey, params, attempts, response, mediaResponse, streamVars>>

\* fetch(mediaUrl) rejects: network failure, or mediaUrl is no URL
MediaRejects ==
  /\ pc = "awaitMedia"
  /\ Fail(Err("network", <<>>, 0, mediaUrl, ""))
  /\ UNCHANGED <<apiKey, params, requests, attempts, response, console>>
  /\ UNCHANGED <<runLocals, fileVars, streamVars>>

\* the output path opened before the status of the download is tested
MediaRespondsOpensFirst(m) ==
  /\ pc = "awaitMedia"
  /\ IsHttpString(mediaUrl)
  /\ mediaResponse' = m
  /\ IF ~m.ok
     THEN /\ Fail(DownloadError(mediaType, mediaUrl, m.status))
          /\ opens' = opens + 1
          /\ file' = <<>>
          /\ UNCHANGED <<pipe, pos, other>>
     ELSE /\ pc' = "piping"
          /\ StartSave(m.bytes)
          /\ UNCHANGED result
  /\ UNCHANGED <<apiKey, params, requests, attempts, response, console>>
  /\ UNCHANGED <<data, mediaUrl, mediaType, streamVars>>

\* fetch(mediaUrl) resolves with m
MediaResponds(m) ==
  /\ pc = "awaitMedia"
  /\ IsHttpString(mediaUrl)
  /\ mediaResponse' = m
  /\ IF ~m.ok
     THEN /\ Fail(DownloadError(mediaType, mediaUrl, m.status))
          /\ UNCHANGED fileVars
     ELSE /\ pc' = "piping"
          /\ StartSave(m.bytes)
          /\ UNCHANGED result
  /\ UNCHANGED <<apiKey, params, requests, attempts, response, console>>
  /\ UNCHANGED <<data, mediaUrl, mediaType, streamVars>>

\* pipeline writes the next part of the body to the file
PipeChunk ==
  /\ pc = "piping"
  /\ pipe # <<>>
  /\ file' = WriteAt(file, pos, Head(pipe))
  /\ pos' = pos + 1
  /\ pipe' = Tail(pipe)
  /\ UNCHANGED <<apiKey, params, pc, requests, attempts, response, console, result, opens, other>>
  /\ UNCHANGED <<runLocals, streamVars>>

\* saveBinaryResponse resolves: return { saved: params.output } after a
\* binary gateway response, { saved, url, type } after a media download
PipeEnd ==
  /\ pc = "piping"
  /\ pipe = <<>>
  /\ pc' = "done"
  /\ result' = IF mediaUrl = JNull
               THEN Result("saved", params.output, JUndef, "undefined",
                           JUndef, JUndef, NoError)
               ELSE Result("saved", params.output, mediaUrl, mediaType,
                           JUndef, JUndef, NoError)
  /\ UNCHANGED <<apiKey, params, requests, attempts, response, console>>
  /\ UNCHANGED <<runLocals, fileVars, streamVars>>

(***************************************************************************)
(* apiHubStream: the read loop                                             *)
(***************************************************************************)
\* the for loop runs over ls until it yields, returns or runs out of lines
Continue(ls) ==
  LET r == RunLines(ls)
  IN CASE r.kind = "yield" ->
            /\ pc' = "yielded"
            /\ events' = Append(events, r.ev)
            /\ lines' = r.rest
            /\ UNCHANGED doneBy
       [] r.kind = "return" ->
            /\ pc' = "done"
            /\ doneBy' = "DONE"
            /\ lines' = <<>>
            /\ UNCHANGED events
       [] r.kind = "exhausted" ->
            /\ pc' = "awaitRead"
            /\ lines' = <<>>
            /\ UNCHANGED <<events, doneBy>>

\* reader.read() resolves with the next n bytes of the body
ReadChunk(n) ==
  /\ pc = "awaitRead"
  /\ n \in 1..Len(remaining)
  /\ LET chunk == SubSeq(remaining, 1, n)
         dec == Utf8Decode(decPending, chunk, <<>>)
         sp == SplitBuffer(buffer, dec.text)
     IN /\ remaining' = SubSeq(remaining, n + 1, Len(remaining))
        /\ consumed' = consumed \o chunk
        /\ decPending' = dec.pending
        /\ buffer' = sp.buffer
        /\ reads' = reads + 1
        /\ Continue(sp.lines)
  /\ UNCHANGED <<apiKey, params, requests, attempts, response, console, result>>
  /\ UNCHANGED <<runLocals, fileVars>>

\* the rest of the buffer handled as one more line when the body ends
ReadDoneFlushesResidue ==
  /\ pc = "awaitRead"
  /\ remaining = <<>>
  /\ pc' = "done"
  /\ doneBy' = "eof"
  /\ reads' = reads + 1
  /\ events' = LET r == RunLines(<<buffer>>)
               IN IF r.kind = "yield" THEN Append(events, r.ev) ELSE events
  /\ UNCHANGED <<remaining, consumed, decPending, buffer, lines>>
  /\ UNCHANGED <<apiKey, params, requests, attempts, response, console, result>>
  /\ UNCHANGED <<runLocals, fileVars>>

\* the done signal ignored: the loop goes on waiting
ReadDoneIgnored ==
  /\ pc = "awaitRead"
  /\ remaining = <<>>
  /\ UNCHANGED vars

\* reader.read() resolves with done: the loop breaks, the generator ends
ReadDone ==
  /\ pc = "awaitRead"
  /\ remaining = <<>>
  /\ pc' = "done"
  /\ doneBy' = "eof"
  /\ reads' = reads + 1
  /\ UNCHANGED <<remaining, consumed, decPending, buffer, lines, events>>
  /\ UNCHANGED <<apiKey, params, requests, attempts, response, console, result>>
  /\ UNCHANGED <<runLocals, fileVars>>

\* the read failure answered by issuing the request again
ReadFailsRetried ==
  /\ pc = "awaitRead"
  /\ pc' = "awaitGateway"
  /\ requests' = Append(requests, PostRequest("/run", Envelope(params)))
  /\ attempts' = 1
  /\ response' = NoResponse
  /\ UNCHANGED streamVars
  /\ UNCHANGED <<apiKey, params, console, result>>
  /\ UNCHANGED <<runLocals, fileVars>>

\* reader.read() rejects (the connection broke): the error leaves the
\* generator, thrown to the consumer
ReadFails ==
  /\ pc = "awaitRead"
  /\ Fail(Err("read", <<>>, 0, JUndef, ""))
  /\ UNCHANGED streamVars
  /\ UNCHANGED <<apiKey, params, requests, attempts, response, console>>
  /\ UNCHANGED <<runLocals, fileVars>>

\* the consumer's next() after a yield: the for loop goes on
GenResume ==
  /\ pc = "yielded"
  /\ Continue(lines)
  /\ UNCHANGED <<remaining, consumed, decPending, buffer, reads>>
  /\ UNCHANGED <<apiKey, params, requests, attempts, response, console, result>>
  /\ UNCHANGED <<runLocals, fileVars>>

Next ==
  \/ RunCall
  \/ GetCall
  \/ GenFirstPull
  \/ RetryAttempt
  \/ \E st \in TransientFailures : GatewayRejects(st)
  \/ \E r \in GatewayResponses(params, apiKey, attempts) : GatewayResponds(r)
  \/ JsonRead
  \/ MediaRejects
  \/ \E m \in MediaResponses : MediaResponds(m)
  \/ PipeChunk
  \/ PipeEnd
  \/ \E n \in 1..Len(remaining) : ReadChunk(n)
  \/ ReadDone
  \/ ReadFails
  \/ GenResume

Spec == Init /\ [][Next]_vars

(***************************************************************************)
(* Vocabulary of the properties                                            *)
(***************************************************************************)
FileMode == params.command = "run" /\ Mode(params) = "file"
InlineMode == params.command = "run" /\ Mode(params) = "inline"
StreamMode == params.command = "run" /\ Mode(params) = "stream"

\* run has parsed the JSON body of a 2xx gateway response
JsonParsed == response.ok /\ data # JUndef

MediaRequests == {i \in 1..Len(requests) : requests[i].kind = "media"}
GatewayRequests == {i \in 1..Len(requests) : requests[i].kind = "gateway"}

\* the output path has not been opened, truncated or written
FileUntouched == file = OldContent /\ opens = 0

\* the body has a code field that is >= 400
CodeAtLeast400(d) == d[1] = "obj" /\ GE400(Prop(d, K_code))

\* the media-URL shapes in the order of the specification, with the URL
\* each carries and its media type
Shapes == 1..10

ShapeMatches(k, d) ==
  CASE k = 1 -> ShapeFlux(d)
    [] k = 2 -> ShapeDalle(d)
    [] k = 3 -> ShapeGenerated(d)
    [] k = 4 -> ShapeImageUrl(d)
    [] k = 5 -> ShapeAudioUrl(d)
    [] k = 6 -> ShapeVideoUrl(d)
    [] k = 7 -> ShapeOutput(d)
    [] k = 8 -> ShapeVideo(d)
    [] k = 9 -> ShapeSamples(d)
    [] k = 10 -> ShapeVideos(d)

ShapeUrl(k, d) ==
  CASE k = 1 -> d[2][1]
    [] k = 2 -> Prop(Prop(d, K_data)[2][1], K_url)
    [] k = 3 -> Prop(d, K_generated_images)[2][1]
    [] k = 4 -> Prop(d, K_image_url)
    [] k = 5 -> Prop(d, K_audio_url)
    [] k = 6 -> Prop(d, K_video_url)
    [] k = 7 -> Prop(d, K_output)
    [] k = 8 -> Prop(d, K_video)
    [] k = 9 -> Prop(Prop(Prop(d, K_generatedSamples)[2][1], K_video), K_uri)
    [] k = 10 -> Prop(d, K_videos)[2][1]

ShapeType(k) ==
  CASE k \in {1, 2, 3, 4} -> "image"
    [] k = 5 -> "audio"
    [] OTHER -> "video"

Matching(d) == {k \in Shapes : ShapeMatches(k, d)}
Earliest(d) == CHOOSE k \in Matching(d) : \A j \in Matching(d) : k <= j

\* the async-job marker: a file_id together with base_resp.status_code 0
AsyncMarked(d) ==
  /\ d[1] = "obj"
  /\ Truthy(Prop(d, K_file_id))
  /\ Prop(d, K_base_resp)[1] = "obj"
  /\ Prop(Prop(d, K_base_resp), K_status_code) = JNum(0)

\* the complete (newline-terminated) lines of the bytes bs, decoded
CompleteLines(bs) == SplitBuffer(<<>>, Utf8Decode(<<>>, bs, <<>>).text).lines

IsDataLine(l) == StartsWith(Trim(l), DataPrefix)
Payload(l) == Slice(Trim(l), 6)
IsDoneLine(l) == IsDataLine(l) /\ Payload(l) = DoneMark
IsEventLine(l) == IsDataLine(l) /\ ~IsDoneLine(l) /\ JSONParse(Payload(l)).ok

DoneLines(ls) == {i \in 1..Len(ls) : IsDoneLine(ls[i])}
FirstDone(ls) == CHOOSE i \in DoneLines(ls) : \A j \in DoneLines(ls) : i <= j

\* the parsed payloads of the lines ls[i..n] that are events
RECURSIVE EventsOf(_, _, _)
EventsOf(ls, i, n) ==
  IF i > n THEN <<>>
  ELSE (IF IsEventLine(ls[i]) THEN <<JSONParse(Payload(ls[i])).val>> ELSE <<>>)
       \o EventsOf(ls, i + 1, n)

\* the events of the lines before the first [DONE] line
EventsBeforeDone(ls) ==
  EventsOf(ls, 1, IF DoneLines(ls) = {} THEN Len(ls) ELSE FirstDone(ls) - 1)

\* the events apiHubStream yields when the bytes bs arrive as one chunk and
\* the consumer pulls to the end
RECURSIVE Drain(_)
Drain(ls) ==
  LET r == RunLines(ls)
  IN IF r.kind = "yield" THEN <<r.ev>> \o Drain(r.rest) ELSE <<>>

OneChunkEvents(bs) ==
  Drain(SplitBuffer(<<>>, Utf8Decode(<<>>, bs, <<>>).text).lines)

NewlineCount(bs) == Cardinality({i \in 1..Len(bs) : bs[i] = "\n"})

\* the bytes of bs up to and including its last newline
UpToLastNewline(bs) ==
  IF NewlineCount(bs) = 0 THEN <<>>
  ELSE SubSeq(bs, 1, CHOOSE i \in 1..Len(bs) :
                       bs[i] = "\n" /\ \A j \in (i + 1)..Len(bs) : bs[j] # "\n")

(***************************************************************************)
(* C1: in file-output mode a JSON body whose code is >= 400 makes run fail *)
(* with the API error, whose message is body.message when that is a        *)
(* non-empty value and 'API error: <code>' otherwise; no media download is *)
(* attempted and the output path is not touched, whatever other fields the *)
(* body has.                                                               *)
(***************************************************************************)
C1_ErrorCodeFirst ==
  (FileMode /\ JsonParsed /\ CodeAtLeast400(data)) =>
    /\ pc = "failed"
    /\ result.kind = "error"
    /\ result.err.kind = "api"
    /\ result.err.message =
         (IF Truthy(Prop(data, K_message)) THEN JsString(Prop(data, K_message))
          ELSE ApiErrorPrefix \o JsString(Prop(data, K_code)))
    /\ MediaRequests = {}
    /\ FileUntouched

\* an error code together with a media shape, and together with the marker
C1_Witness ==
  /\ FileMode /\ JsonParsed /\ CodeAtLeast400(data)
  /\ Matching(data) # {}
  /\ pc = "failed"

(***************************************************************************)
(* C2: in file-output mode a JSON body (without error code) that carries   *)
(* the async-job marker makes run return the Processing outcome and never  *)
(* issue a media download, whatever URL-shaped fields it also has.         *)
(***************************************************************************)
C2_AsyncShortCircuitsAll ==
  (FileMode /\ JsonParsed /\ ~CodeAtLeast400(data) /\ AsyncMarked(data)) =>
    /\ MediaRequests = {}
    /\ pc = "done"
    /\ result.kind = "processing"

(***************************************************************************)
(* C3: in file-output mode, for a JSON body without error code that        *)
(* matches more than one media shape, the URL and type extracted are those *)
(* of the earliest matching shape, and at most one download is issued.     *)
(***************************************************************************)
C3_EarliestShapeWins ==
  (FileMode /\ JsonParsed /\ ~CodeAtLeast400(data) /\ Cardinality(Matching(data)) > 1) =>
    /\ mediaUrl = ShapeUrl(Earliest(data), data)
    /\ mediaType = ShapeType(Earliest(data))
    /\ Cardinality(MediaRequests) = 1
    /\ \A i \in MediaRequests : requests[i].url = ShapeUrl(Earliest(data), data)

(***************************************************************************)
(* C3 as amended: the same, for the bodies that match one of the shapes    *)
(* before the async-job check (array of URL, data[0].url, generated_images,*)
(* image_url, audio_url, video_url, output, video) or carry no async-job   *)
(* marker; and no call issues more than one download.                      *)
(***************************************************************************)
C3_EarliestShapeWinsUnlessAsync ==
  /\ Cardinality(MediaRequests) <= 1
  /\ (FileMode /\ JsonParsed /\ ~CodeAtLeast400(data)
      /\ Cardinality(Matching(data)) > 1
      /\ (Earliest(data) <= 8 \/ ~AsyncMarked(data))) =>
       /\ mediaUrl = ShapeUrl(Earliest(data), data)
       /\ mediaType = ShapeType(Earliest(data))
       /\ Cardinality(MediaRequests) = 1
       /\ \A i \in MediaRequests : requests[i].url = ShapeUrl(Earliest(data), data)

\* a body with an image and an audio shape, its download under way
C3_Witness ==
  /\ FileMode /\ JsonParsed
  /\ {4, 5} \subseteq Matching(data)
  /\ Earliest(data) = 4
  /\ pc = "awaitMedia"

(***************************************************************************)
(* C4: the events apiHubStream has yielded when it ends are the events it  *)
(* yields for the same bytes arriving as one chunk, however the bytes were *)
(* split into chunks; and at any time the events yielded are among those   *)
(* of the bytes received up to the last newline: a trailing partial line   *)
(* yields nothing.                                                         *)
(***************************************************************************)
C4_ChunkingInvariant ==
  StreamMode =>
    /\ pc = "done" => events = OneChunkEvents(response.sse)
    /\ IsPrefix(events, OneChunkEvents(UpToLastNewline(consumed)))

\* the stream was read to its end in more chunks than it has lines, so a
\* chunk ended inside a line, and events were yielded
C4_Witness ==
  /\ StreamMode /\ pc = "done" /\ doneBy = "eof"
  /\ Len(events) >= 3
  /\ reads - 1 > NewlineCount(consumed) + 1

(***************************************************************************)
(* C5: once a complete line with payload [DONE] has been decoded, no event *)
(* of a later line is yielded (also not of a line of the same chunk), the  *)
(* generator ends there and the reader is not read again.                  *)
(***************************************************************************)
DoneDecoded == StreamMode /\ DoneLines(CompleteLines(consumed)) # {}

C5_DoneTerminates ==
  /\ [](DoneDecoded =>
          /\ pc \in {"yielded", "done"}
          /\ IsPrefix(events, EventsBeforeDone(CompleteLines(consumed)))
          /\ pc = "done" => /\ doneBy = "DONE"
                            /\ events = EventsBeforeDone(CompleteLines(consumed)))
  /\ [][DoneDecoded => (reads' = reads /\ remaining' = remaining)]_vars

\* ended by [DONE] with an event line after it in the chunk already read
C5_Witness ==
  /\ DoneDecoded /\ pc = "done" /\ doneBy = "DONE"
  /\ LET ls == CompleteLines(consumed)
     IN \E i \in 1..Len(ls) : i > FirstDone(ls) /\ IsEventLine(ls[i])

(***************************************************************************)
(* C6: in inline mode a 2xx response whose JSON body has code >= 400 is    *)
(* surfaced as an error, not returned as a value.                          *)
(***************************************************************************)
C6_InlineSurfacesErrorCode ==
  (InlineMode /\ JsonParsed /\ CodeAtLeast400(data)) =>
    pc = "failed" /\ result.kind = "error"

(***************************************************************************)
(* C7: while the API key is missing, empty or the placeholder, no request  *)
(* has been sent by any gateway call, and a call that was started has      *)
(* failed with the configuration error.                                    *)
(***************************************************************************)
Unconfigured == apiKey \in {"undefined", "", "YOUR_API_KEY_HERE"}

C7_NoRequestWithoutKey ==
  Unconfigured =>
    /\ requests = <<>>
    /\ pc \in {"idle", "genStart", "failed"}
    /\ pc = "failed" => result.err.kind = "config"
    /\ response = NoResponse

\* the generator was pulled with an empty key
C7_Witness ==
  /\ apiKey = "" /\ StreamMode /\ pc = "failed"
  /\ result.err.kind = "config"

(***************************************************************************)
(* C8: in file-output mode a JSON body with no error code, no async-job    *)
(* marker and no media shape makes run return {saved: <output path>} with  *)
(* no url and type 'file'.                                                 *)
(***************************************************************************)
Unrecognized(d) ==
  ~CodeAtLeast400(d) /\ ~AsyncMarked(d) /\ Matching(d) = {}

C8_PlainSaveReturnsSaved ==
  (FileMode /\ JsonParsed /\ data[1] # "null" /\ Unrecognized(data) /\ pc = "done") =>
    /\ result.kind = "saved"
    /\ result.saved = params.output
    /\ result.url \in {JUndef, JNull}
    /\ result.type = "file"

(***************************************************************************)
(* C9: in file-output mode, when run has returned for a JSON body with no  *)
(* error code and no media or async-job shape, the output file holds the   *)
(* 2-space indented text of that body, and parsing the file gives the body.*)
(***************************************************************************)
C9_FileHoldsPrettyJson ==
  (FileMode /\ JsonParsed /\ Unrecognized(data) /\ pc = "done") =>
    /\ file = Stringify(response.json, 0, 2)
    /\ JSONParse(file).ok
    /\ JSONParse(file).val = response.json
    /\ opens = 1

\* a nested body with a text that needs escaping has been saved
C9_Witness ==
  /\ FileMode /\ JsonParsed /\ Unrecognized(data) /\ pc = "done"
  /\ Truthy(Prop(data, K_text))
  /\ Prop(data, K_data)[1] = "arr"

(***************************************************************************)
(* C10: in file-output mode every JSON value that matches no recognized    *)
(* shape, JSON null included, is saved and never produces an error.        *)
(***************************************************************************)
C10_UnrecognizedNeverFails ==
  (FileMode /\ JsonParsed /\ Unrecognized(data)) =>
    /\ pc = "done"
    /\ result.kind # "error"
    /\ file = Stringify(response.json, 0, 2)

(***************************************************************************)
(* C11: in file-output mode a gateway response whose Content-Type contains *)
(* 'audio' or 'octet-stream' is streamed to the output path and run        *)
(* returns {saved: output}: the body is never parsed as JSON, so no error  *)
(* code, async-job marker or media shape in it has any effect, and no      *)
(* second fetch is issued.                                                 *)
(***************************************************************************)
BinaryResponse == FileMode /\ response.ok /\ response.ctype \in {CtAudio, CtOctet}

C11_BinaryBypassesJson ==
  BinaryResponse =>
    /\ data = JUndef
    /\ mediaUrl = JNull
    /\ MediaRequests = {}
    /\ Len(requests) = 1
    /\ console = <<>>
    /\ pc \in {"piping", "done"}
    /\ pc = "done" =>
         /\ result.kind = "saved"
         /\ result.saved = params.output
         /\ result.url = JUndef
         /\ result.type = "undefined"
         /\ file = response.bytes
         /\ opens = 1

\* an octet-stream body that reads as JSON with an error code and a media
\* URL has been saved
C11_Witness ==
  /\ BinaryResponse /\ response.ctype = CtOctet
  /\ CodeAtLeast400(response.json) /\ Matching(response.json) # {}
  /\ pc = "done" /\ file = BinaryBody

(***************************************************************************)
(* C12: the modes of run exclude each other and stream comes first: with   *)
(* params.stream truthy run returns the generator of apiHubStream and      *)
(* never parses a whole body, writes the output path or issues a media     *)
(* download, also when params.output is given; without it run returns no   *)
(* generator and reads no stream, and without an output path it writes no  *)
(* file.                                                                   *)
(***************************************************************************)
StreamAsked == params.command = "run" /\ params.stream = "true"
OutputAsked == params.command = "run" /\ params.output \notin {"undefined", ""}

C12_StreamTakesPrecedence ==
  /\ StreamAsked =>
       /\ pc # "idle" => result.kind = "stream"
       /\ pc \in {"idle", "genStart", "awaitGateway", "awaitRead", "yielded",
                  "done", "failed"}
       /\ FileUntouched /\ pipe = <<>>
       /\ MediaRequests = {}
       /\ data = JUndef
       /\ pc = "done" => doneBy \in {"DONE", "eof"}
  /\ (params.command = "run" /\ ~StreamAsked) =>
       /\ result.kind # "stream"
       /\ events = <<>> /\ reads = 0 /\ doneBy = ""
       /\ ~OutputAsked => (FileUntouched /\ MediaRequests = {})

\* a stream with an output path given was read to its end
C12_Witness ==
  /\ StreamAsked /\ OutputAsked
  /\ pc = "done" /\ events # <<>> /\ doneBy = "eof"

(***************************************************************************)
(* C13: a 'data: ' line whose payload is not JSON yields no event and no   *)
(* error: whenever apiHubStream has run through the lines it has read, the *)
(* events are exactly those of the valid data lines (before a [DONE]), so  *)
(* every valid data line after a malformed one has been yielded, and the   *)
(* only error the consumer can see is a failed gateway call or read.       *)
(***************************************************************************)
IsBadDataLine(l) ==
  IsDataLine(l) /\ ~IsDoneLine(l) /\ ~JSONParse(Payload(l)).ok

\* the lines before the first [DONE] line
LiveLines(ls) == 1..(IF DoneLines(ls) = {} THEN Len(ls) ELSE FirstDone(ls) - 1)

C13_BadJsonSkipped ==
  (StreamMode /\ response.ok) =>
    LET ls == CompleteLines(consumed)
    IN /\ result.err.kind \in {"none", "read"}
       /\ pc \in {"awaitRead", "done"} =>
            /\ Len(events) = Cardinality({j \in LiveLines(ls) : IsEventLine(ls[j])})
            /\ \A i, j \in LiveLines(ls) :
                 (i < j /\ IsBadDataLine(ls[i]) /\ IsEventLine(ls[j])) =>
                   \E k \in 1..Len(events) : events[k] = JSONParse(Payload(ls[j])).val

\* the stream ended after a malformed data line followed by a valid one
C13_Witness ==
  /\ StreamMode /\ response.ok /\ pc = "done" /\ doneBy = "eof"
  /\ LET ls == CompleteLines(consumed)
     IN \E i, j \in LiveLines(ls) :
          i < j /\ IsBadDataLine(ls[i]) /\ IsEventLine(ls[j])

(***************************************************************************)
(* Fairness for the streaming claims: the consumer keeps pulling the       *)
(* generator, and a pending reader.read() settles (the body is a finite    *)
(* sequence of chunks followed by the done signal).  For GenResume and     *)
(* ReadChunk weak fairness is written out, []<>~ENABLED <<A>>_vars \/       *)
(* []<><<A>>_vars, with the enabling condition of the action in the place  *)
(* of ENABLED: GenResume can act, and changes the state, exactly when the  *)
(* generator is suspended at a yield, ReadChunk exactly when a read is     *)
(* pending and bytes remain.                                               *)
(***************************************************************************)
ChunkArrives == \E n \in 1..Len(remaining) : ReadChunk(n)

ConsumerPulls ==
  /\ WF_vars(GenFirstPull)
  /\ ([]<>(pc # "yielded") \/ []<><<GenResume>>_vars)

ReadSettles ==
  /\ WF_vars(ReadDone)
  /\ ([]<>~(pc = "awaitRead" /\ remaining # <<>>) \/ []<><<ChunkArrives>>_vars)

LiveSpec == Init /\ [][Next]_vars /\ ConsumerPulls /\ ReadSettles

(***************************************************************************)
(* C14: a stream whose complete lines hold no [DONE] payload and whose     *)
(* reads all succeed is read to its end and the generator then completes   *)
(* normally, by the reader's done signal; every stream being read          *)
(* eventually completes without error, by [DONE] or by end of stream,      *)
(* unless a read fails.                                                    *)
(***************************************************************************)
Reading == StreamMode /\ response.ok /\ pc \in {"awaitRead", "yielded"}

ReadFailed == pc = "failed" /\ result.err.kind = "read"

CompletedNormally ==
  /\ pc = "done"
  /\ result.err = NoError
  /\ doneBy \in {"DONE", "eof"}

C14_EndOfStreamCompletes ==
  /\ [](StreamMode /\ response.ok /\ pc = "done"
          /\ DoneLines(CompleteLines(response.sse)) = {} =>
            /\ doneBy = "eof"
            /\ remaining = <<>>
            /\ consumed = response.sse
            /\ result.err = NoError)
  /\ Reading ~> (CompletedNormally \/ ReadFailed)

\* a stream without [DONE], with a malformed line and a partial last line,
\* ended by the done signal after several reads
C14_Witness ==
  /\ StreamMode /\ pc = "done" /\ doneBy = "eof"
  /\ DoneLines(CompleteLines(response.sse)) = {}
  /\ reads >= 3 /\ events # <<>> /\ buffer # <<>>

(***************************************************************************)
(* C15: with maxAttempts 3 the transport makes at most 3 attempts for a    *)
(* gateway request, one after the other; it raises the transport error     *)
(* only after exactly 3 failed attempts, without a response; and a         *)
(* response, on whichever attempt it comes (the third included), is        *)
(* delivered once: no attempt follows it and it is not replaced.           *)
(***************************************************************************)
C15_RetryBound ==
  /\ [](/\ attempts <= 3
        /\ pc = "awaitGateway" => (attempts \in 1..3 /\ response = NoResponse)
        /\ result.err.kind = "transport" =>
             /\ pc = "failed"
             /\ attempts = 3
             /\ result.err.attempts = 3
             /\ response = NoResponse)
  /\ [][/\ attempts' # attempts =>
             (attempts' = attempts + 1 /\ response' = NoResponse)
        /\ response # NoResponse =>
             (response' = response /\ attempts' = attempts)]_vars

\* two failed attempts, then a response on the third, and run has returned
C15_Witness ==
  /\ attempts = 3 /\ response.ok /\ pc = "done"
  /\ Len(requests) = 1

(***************************************************************************)
(* C16: once apiHubStream has its response and reads the body, the gateway *)
(* request is not issued again and the transport makes no further attempt; *)
(* a read that fails ends the generator with that error, thrown to the     *)
(* consumer, and nothing happens after it; the events delivered are        *)
(* always a prefix of the events of the body, so none is delivered twice.  *)
(***************************************************************************)
StreamStarted == StreamMode /\ response.ok

C16_NoRetryAfterFirstByte ==
  /\ [](StreamStarted =>
          /\ Len(requests) = 1
          /\ IsPrefix(events, EventsBeforeDone(CompleteLines(response.sse)))
          /\ IsPrefix(consumed, response.sse)
          /\ pc = "failed" => result.err.kind = "read")
  /\ [][StreamStarted =>
          /\ requests' = requests
          /\ attempts' = attempts
          /\ response' = response
          /\ IsPrefix(events, events')
          /\ IsPrefix(consumed, consumed')
          /\ pc = "failed" => UNCHANGED vars]_vars

\* a read failed in the middle of the body, after events were delivered
C16_Witness ==
  /\ StreamStarted /\ ReadFailed
  /\ events # <<>> /\ remaining # <<>>
  /\ Len(requests) = 1

(***************************************************************************)
(* C17: a call of run issues one gateway request (none only when it fails  *)
(* on the key check, or its generator is never pulled) and at most one     *)
(* media request; the media request comes second, in file-output mode      *)
(* only, after the gateway response has arrived and its JSON body has been *)
(* read; while the gateway call is pending no media request exists, so at  *)
(* most one network call is in flight at any time.                         *)
(***************************************************************************)
\* the requests whose response or body run is waiting for
InFlight ==
  {i \in 1..Len(requests) :
     \/ /\ requests[i].kind = "gateway"
        /\ \/ pc \in {"awaitGateway", "awaitJson", "awaitRead", "yielded"}
           \/ pc = "piping" /\ MediaRequests = {}
     \/ /\ requests[i].kind = "media"
        /\ pc \in {"awaitMedia", "piping"}}

Downloaded == FileMode /\ mediaResponse # NoMedia

C18_DownloadOutcome ==
  Downloaded =>
    /\ mediaUrl = ShapeUrl(Earliest(data), data)
    /\ mediaType = ShapeType(Earliest(data))
    /\ ~mediaResponse.ok =>
         /\ pc = "failed"
         /\ result.kind = "error"
         /\ result.err.kind = "download"
         /\ result.err.kind # HttpError(mediaResponse.status, <<>>).kind
         /\ result.err.mtype = mediaType
         /\ result.err.url = mediaUrl
         /\ result.err.status = mediaResponse.status
         /\ FileUntouched
    /\ mediaResponse.ok =>
         /\ pc \in {"piping", "done"}
         /\ opens = 1
         /\ pc = "done" =>
              /\ file = mediaResponse.bytes
              /\ result.kind = "saved"
              /\ result.saved = params.output
              /\ result.url = mediaUrl
              /\ result.type = mediaType

\* the download of an audio URL was answered with 403
C18_Witness ==
  /\ Downloaded /\ ~mediaResponse.ok /\ mediaResponse.status = 403
  /\ mediaType = "audio" /\ pc = "failed"

(***************************************************************************)
(* C19: the request sent to the extracted media URL is a GET of that URL   *)
(* with no Authorization header and no body: it is determined by the       *)
(* gateway's response body alone, so two runs that differ only in the API  *)
(* key send the same media request, while the gateway request carries the  *)
(* key.                                                                    *)
(***************************************************************************)
\* the media request as a function of the gateway's response body
PlainGet(body) ==
  [kind |-> "media", method |-> "GET",
   url |-> ShapeUrl(Earliest(body), body), auth |-> "none"]

C19_MediaRequestUnauthenticated ==
  \A i \in MediaRequests :
    /\ requests[i] = PlainGet(response.json)
    /\ DOMAIN requests[i] = {"kind", "method", "url", "auth"}
    /\ requests[i].auth # apiKey
    /\ \A j \in GatewayRequests : requests[j].auth = apiKey

\* a media request was sent in a run with the second key
C19_Witness ==
  /\ apiKey = "sk-test"
  /\ MediaRequests # {}
  /\ pc = "awaitMedia"

C21_CoreNeverPrints ==
  params.command = "run" => console = <<>>

(***************************************************************************)
(* Two calls of run in file-output mode on the same output path: the call  *)
(* modelled above, and the saveBinaryResponse of a second call whose body  *)
(* has arrived.  Each call writes through a write stream of its own, which *)
(* truncates the file when it opens and then writes part after part at its *)
(* own offset; the parts of the two pipelines interleave in any order.     *)
(***************************************************************************)
OtherOpens ==
  /\ other.pc = "idle"
  /\ file' = <<>>
  /\ other' = [pc |-> "writing", pipe |-> OtherBody, pos |-> 0]
  /\ UNCHANGED <<apiKey, params, pc, requests, attempts, response, console, result>>
  /\ UNCHANGED <<pipe, opens, pos, runLocals, streamVars>>

OtherWrites ==
  /\ other.pc = "writing"
  /\ other.pipe # <<>>
  /\ file' = WriteAt(file, other.pos, Head(other.pipe))
  /\ other' = [other EXCEPT !.pipe = Tail(other.pipe), !.pos = other.pos + 1]
  /\ UNCHANGED <<apiKey, params, pc, requests, attempts, response, console, result>>
  /\ UNCHANGED <<pipe, opens, pos, runLocals, streamVars>>

OtherEnds ==
  /\ other.pc = "writing"
  /\ other.pipe = <<>>
  /\ other' = [other EXCEPT !.pc = "done"]
  /\ UNCHANGED <<apiKey, params, pc, requests, attempts, response, console, result>>
  /\ UNCHANGED <<pipe, file, opens, pos, runLocals, streamVars>>

RaceParams ==
  [command |-> "run", model |-> "vendor/model", inputs |-> JObj(<<>>),
   stream |-> "false", output |-> "out.bin", autoFallback |-> "true"]

RaceInit == Init /\ apiKey = "sk-live" /\ params = RaceParams

RaceNext ==
  \/ RunCall
  \/ RetryAttempt
  \/ \E st \in TransientFailures : GatewayRejects(st)
  \/ \E r \in GatewayResponses(params, apiKey, attempts) : GatewayResponds(r)
  \/ JsonRead
  \/ MediaRejects
  \/ \E m \in MediaResponses : MediaResponds(m)
  \/ PipeChunk
  \/ PipeEnd
  \/ OtherOpens
  \/ OtherWrites
  \/ OtherEnds

RaceSpec == RaceInit /\ [][RaceNext]_vars

(***************************************************************************)
(* C22: when both calls have completed, the file holds the complete output *)
(* of one of them, never a mixture of the two, whatever the interleaving.  *)
(***************************************************************************)
\* what the call has written when it returns
CallOutput ==
  IF result.kind = "saved"
  THEN (IF mediaResponse.ok THEN mediaResponse.bytes ELSE response.bytes)
  ELSE Stringify(response.json, 0, 2)

C22_LastWriterWins ==
  (FileMode /\ pc = "done" /\ other.pc = "done") =>
    file \in {CallOutput, OtherBody}

(***************************************************************************)
(* C23: a complete line yields an event only if the line itself, as it     *)
(* stands between two newlines, starts with 'data: ': whenever the         *)
(* generator has run through the lines it has read, there are as many      *)
(* events as valid lines with that literal prefix before a [DONE], so a    *)
(* line with whitespace before 'data: ' yields nothing.                    *)
(***************************************************************************)
LiteralPrefix == <<"d", "a", "t", "a", ":", " ">>

\* the lines before a [DONE] that start with the prefix and hold JSON
LiteralFrames(ls) ==
  {j \in LiveLines(ls) :
     StartsWith(ls[j], LiteralPrefix) /\ JSONParse(Slice(ls[j], 6)).ok}

C23_OnlyLiteralPrefix ==
  (StreamMode /\ response.ok /\ pc \in {"awaitRead", "done"}) =>
    Len(events) = Cardinality(LiteralFrames(CompleteLines(consumed)))

(***************************************************************************)
(* C23 as amended: the prefix is looked for in the line with the           *)
(* whitespace at both ends trimmed off, and what follows the prefix in the *)
(* trimmed line is parsed: there are as many events as such lines with a   *)
(* JSON payload before a [DONE]; a line starting with 'data:' and no       *)
(* space, or with anything else once trimmed, yields nothing, a line with  *)
(* whitespace before 'data: ' yields its payload.                          *)
(***************************************************************************)
TrimmedFrames(ls) ==
  {j \in LiveLines(ls) :
     /\ StartsWith(Trim(ls[j]), LiteralPrefix)
     /\ Slice(Trim(ls[j]), 6) # DoneMark
     /\ JSONParse(Slice(Trim(ls[j]), 6)).ok}

C23_TrimmedPrefix ==
  (StreamMode /\ response.ok /\ pc \in {"awaitRead", "done"}) =>
    LET ls == CompleteLines(consumed)
    IN /\ Len(events) = Cardinality(TrimmedFrames(ls))
       /\ \A j \in TrimmedFrames(ls) :
            \E k \in 1..Len(events) : events[k] = JSONParse(Slice(Trim(ls[j]), 6)).val
       /\ LiteralFrames(ls) \subseteq TrimmedFrames(ls)

\* a stream with a line ' data: 2' and a line 'data:3' was read to its end
C23_Witness ==
  /\ StreamMode /\ response.ok /\ pc = "done" /\ doneBy = "eof"
  /\ LET ls == CompleteLines(consumed)
     IN /\ \E j \in TrimmedFrames(ls) : Head(ls[j]) = " "
        /\ \E j \in LiveLines(ls) : StartsWith(ls[j], <<"d", "a", "t", "a", ":", "3">>)

(***************************************************************************)
(* C24: in file-output mode a video_url, output or video field that is     *)
(* present but is not a string beginning with 'http' is never requested as *)
(* a media URL.                                                            *)
(***************************************************************************)
VideoKeys == {K_video_url, K_output, K_video}

C24_VideoShapesNeedHttpString ==
  (FileMode /\ JsonParsed /\ data[1] = "obj") =>
    \A k \in VideoKeys :
      (Prop(data, k) # JUndef /\ ~IsHttpString(Prop(data, k))) =>
        \A i \in MediaRequests : requests[i].url # Prop(data, k)

(***************************************************************************)
(* C25: when the response the transport returns to a gateway call          *)
(* (apiHubPost, apiHubGet, apiHubRaw, apiHubStream) is not ok, the call    *)
(* fails with 'API Hub request failed: <status> <body text>' and the body  *)
(* is never interpreted: no JSON is parsed or returned, nothing is         *)
(* classified, downloaded or written, and no event is yielded.             *)
(***************************************************************************)
NotOk == response # NoResponse /\ ~response.ok

C25_NotOkNeverInterpreted ==
  NotOk =>
    /\ pc = "failed"
    /\ result.err.kind = "http"
    /\ result.err.status = response.status
    /\ result.err.message = ResponseText(response)
    /\ result.value = JUndef /\ result.saved = ""
    /\ data = JUndef
    /\ mediaUrl = JNull /\ MediaRequests = {}
    /\ FileUntouched /\ pipe = <<>>
    /\ events = <<>> /\ consumed = <<>> /\ remaining = <<>>

C25_Witness ==
  /\ NotOk /\ FileMode
  /\ response.status = 404
  /\ Matching(response.json) # {}
  /\ result.err.message # <<>>
  /\ pc = "failed"

(***************************************************************************)
(* C26: run in streaming mode is lazy.  The call returns the event         *)
(* sequence without checking the API key and without a network request;    *)
(* the key check and the one gateway request happen at the consumer's      *)
(* first pull, and while the sequence is not pulled no request is issued.  *)
(***************************************************************************)
Returned == result.kind = "stream" /\ result.err = NoError
Unpulled == pc = "genStart"

C26_StreamingIsLazy ==
  [][StreamMode =>
       /\ pc = "idle" => Unpulled' /\ Returned' /\ requests' = <<>>
       /\ requests' # requests =>
            /\ Unpulled /\ requests = <<>> /\ Len(requests') = 1
            /\ KeyConfigured(apiKey)
       /\ (result'.err.kind = "config" /\ result.err.kind # "config") => Unpulled
       /\ Unpulled' => Unpulled \/ pc = "idle"]_vars

C26_Witness ==
  /\ StreamMode /\ Unpulled /\ Returned
  /\ Unconfigured
  /\ requests = <<>> /\ attempts = 0

(***************************************************************************)
(* C27: when the reader signals done while the buffer still holds a line   *)
(* that no newline terminated, apiHubStream ends without yielding an event *)
(* for it, even if it reads 'data: <valid JSON>' or 'data: [DONE]'; only   *)
(* newline-terminated lines produce events.                                *)
(***************************************************************************)
BodyEnded == StreamMode /\ pc = "awaitRead" /\ remaining = <<>>
ResidueAtEof == StreamMode /\ pc = "done" /\ doneBy = "eof" /\ buffer # <<>>

C27_ResidueDiscarded ==
  /\ [][(BodyEnded /\ pc' = "done") =>
          /\ events' = events
          /\ doneBy' = "eof"
          /\ buffer' = buffer]_vars
  /\ [](StreamMode => Len(events) <= NewlineCount(consumed))
  /\ [](ResidueAtEof =>
          Len(events) = Cardinality({i \in LiveLines(CompleteLines(consumed)) :
                                        IsEventLine(CompleteLines(consumed)[i])}))

C27_Witness ==
  /\ ResidueAtEof
  /\ IsEventLine(buffer)
  /\ consumed = response.sse
  /\ events # <<>>

(***************************************************************************)
(* C28: apiHubStream preserves order and multiplicity.  The events yielded *)
(* are the parsed payloads of the newline-terminated valid data lines      *)
(* before the first [DONE] line, in the order of the lines in the byte     *)
(* stream, each once, wherever the chunk boundaries fall; events are only  *)
(* ever added at the end, one at a time.                                   *)
(***************************************************************************)
Expected == EventsBeforeDone(CompleteLines(consumed))

C28_OrderAndMultiplicity ==
  /\ [](StreamStarted =>
          /\ pc \in {"awaitRead", "done"} => events = Expected
          /\ pc \in {"yielded", "failed"} => IsPrefix(events, Expected))
  /\ [][StreamMode =>
          \/ events' = events
          \/ /\ Len(events') = Len(events) + 1
             /\ SubSeq(events', 1, Len(events)) = events
             /\ pc' = "yielded"]_vars

C28_Witness ==
  /\ StreamStarted /\ pc = "done"
  /\ Len(events) >= 3
  /\ \A i, j \in 1..Len(events) : i # j => events[i] # events[j]
  /\ reads > Len(CompleteLines(consumed)) + 1
  /\ events = Expected

(***************************************************************************)
(* C29: in file-output mode a run that fails because the key is not        *)
(* configured, the gateway response is not 2xx, the JSON body has a code   *)
(* >= 400 or the media download is not ok has neither written nor          *)
(* truncated the output path; a run that succeeds has opened the path for  *)
(* writing exactly once.                                                   *)
(***************************************************************************)
EarlyFailures == {"config", "http", "api", "download"}

FailedEarly == FileMode /\ pc = "failed" /\ result.err.kind \in EarlyFailures

C29_FailureLeavesPathUntouched ==
  FileMode =>
    /\ FailedEarly => (file = OldContent /\ opens = 0 /\ pos = 0 /\ pipe = <<>>)
    /\ pc = "done" => (opens = 1 /\ file # OldContent /\ result.kind # "error")
    /\ opens <= 1

C29_Witness ==
  /\ FailedEarly
  /\ result.err.kind = "download"
  /\ mediaResponse.bytes # <<>>
  /\ file = OldContent

====
